---- MODULE Spec2Model ----
(***************************************************************************)
(* Strollcast director: segment synthesis, content-addressed caching and   *)
(* timed assembly.  Two pipelines are modelled: the Modal pipeline         *)
(* (modal/src/generator.py, modal/src/storage.py, modal/src/app.py) and    *)
(* the local pipeline (python/generate.py).                                *)
(*                                                                         *)
(* Audio bytes are abstract clips; SHA-256 is taken to be collision free,  *)
(* so a cache key is identified with the JSON text that is hashed: the     *)
(* sequence of <<field, value>> pairs json.dumps writes, as a string.      *)
(* Times are integer milliseconds.                                         *)
(***************************************************************************)
EXTENDS Integers, Sequences, FiniteSets, TLC

(***************************************************************************)
(* Bounds of the model.                                                    *)
(***************************************************************************)
\* how many adjacent transpositions of the dict's construction order are tried
MaxSwaps == 2

\* how many lines a script has at most
MaxLines == 2

\* how many different recordings the synthesizer can return
MaxClip == 2

\* how many lines a script has at most where the assembly is studied
MaxAssemblyLines == 3

\* up to how many whole hours the times handed to the timestamp formatter run
MaxStampHours == 1

\* lines of a script text handed to the parser
MaxParseLines == 3

(***************************************************************************)
(* Configuration: modal/src/app.py and python/generate.py.                 *)
(***************************************************************************)
ELEVENLABS_ERIC_VOICE == "gP8LZQ3GGokV0MP5JYjg"

ELEVENLABS_MAYA_VOICE == "21m00Tcm4TlvDq8ikWAM"

VOICES == [ERIC |-> ELEVENLABS_ERIC_VOICE, MAYA |-> ELEVENLABS_MAYA_VOICE]

MODEL_ID == "eleven_turbo_v2_5"

\* floats are held as the text json.dumps renders them with
VOICE_SETTINGS ==
    [stability |-> "0.5", similarity_boost |-> "0.75", style |-> "0.0",
     use_speaker_boost |-> TRUE]

TARGET_LUFS == -16

\* the module-level configuration a deployment of the Modal app runs with
Deployed ==
    [model_id |-> MODEL_ID, voice_settings |-> VOICE_SETTINGS,
     target_lufs |-> TARGET_LUFS]

(***************************************************************************)
(* json.dumps(..., sort_keys=True): the dict is an insertion-ordered       *)
(* sequence of <<field, value>> pairs; sort_keys orders them by field      *)
(* name (string comparison) before they are written.                       *)
(***************************************************************************)
\* the field names the two key functions use, in Python's string order
FieldNameOrder ==
    <<"lufs", "model_id", "normalized", "similarity_boost", "stability",
      "style", "text", "voice_id">>

NameRank(name) ==
    CHOOSE r \in 1..Len(FieldNameOrder) : FieldNameOrder[r] = name

RECURSIVE InsertByName(_, _)
InsertByName(item, sorted) ==
    IF sorted = << >> THEN <<item>>
    ELSE IF NameRank(item[1]) <= NameRank(Head(sorted)[1])
         THEN <<item>> \o sorted
         ELSE <<Head(sorted)>> \o InsertByName(item, Tail(sorted))

RECURSIVE SortItems(_)
SortItems(items) ==
    IF items = << >> THEN << >>
    ELSE InsertByName(Head(items), SortItems(Tail(items)))

\* a plausible slip: sort_keys left out, the pairs are written as inserted
json_dumps_unsorted(items) == items

json_dumps(items) == SortItems(items)

\* hashlib.sha256(...).hexdigest(): a string; collision free, so the digest
\* is written as the text that was hashed
sha256_hexdigest(data) == ToString(data)

(***************************************************************************)
(* The two cache key functions.  `order` is the order in which the dict    *)
(* literal's fields are inserted (a permutation of 1..n); the source       *)
(* inserts them in the order written, SourceOrder.                         *)
(***************************************************************************)
Permute(items, order) ==
    LET o == SelectSeq(order, LAMBDA j : j <= Len(items))
    IN  [j \in 1..Len(o) |-> items[o[j]]]

\* modal/src/generator.py: the dict literal of compute_cache_key
ModalCacheData(text, voice_id, cfg) ==
    << <<"text", text>>,
       <<"voice_id", voice_id>>,
       <<"model_id", cfg.model_id>>,
       <<"stability", cfg.voice_settings.stability>>,
       <<"similarity_boost", cfg.voice_settings.similarity_boost>>,
       <<"style", cfg.voice_settings.style>>,
       <<"normalized", TRUE>>,
       <<"lufs", cfg.target_lufs>> >>

\* a plausible slip: the normalization fields left out of the key
ModalCacheDataNoNorm(text, voice_id, cfg) ==
    SubSeq(ModalCacheData(text, voice_id, cfg), 1, 6)

ComputeKeyData(text, voice_id, cfg) == ModalCacheData(text, voice_id, cfg)

compute_cache_key_in(text, voice_id, cfg, order) ==
    sha256_hexdigest(json_dumps(Permute(ComputeKeyData(text, voice_id, cfg), order)))

\* python/generate.py: the dict literal of get_cache_key
LocalCacheData(text, voice_id) ==
    << <<"text", text>>,
       <<"voice_id", voice_id>>,
       <<"model_id", MODEL_ID>>,
       <<"stability", "0.5">>,
       <<"similarity_boost", "0.75">>,
       <<"style", "0.0">> >>

get_cache_key_in(text, voice_id, order) ==
    sha256_hexdigest(json_dumps(Permute(LocalCacheData(text, voice_id), order)))

SourceOrder(n) == [j \in 1..n |-> j]

compute_cache_key(text, voice_id) ==
    compute_cache_key_in(text, voice_id, Deployed, SourceOrder(8))

get_cache_key(text, voice_id) ==
    get_cache_key_in(text, voice_id, SourceOrder(6))

(***************************************************************************)
(* State.  The first group belongs to the study of the key functions, the  *)
(* rest to the pipelines.                                                  *)
(***************************************************************************)
VARIABLES
    kpc,        \* "build" while requests are being formed, "hashed" after
    reqA,       \* a synthesis request, its dict built in source order
    reqB,       \* a second request: reqA, or reqA changed in one parameter
    korder,     \* the order in which reqB's dict fields are inserted
    keyA,       \* fingerprint of reqA ("none" before hashing)
    keyB,       \* fingerprint of reqB ("none" before hashing)
    entry,      \* which pipeline runs: "modal", "main", "preview", "normalize"
    script,     \* the script: a sequence of lines
    cache,      \* the segment cache: key -> clip, or Absent
    at_start,   \* what the current run found: [cache, temp_dir, published]
    temp_dir,   \* the files of <episode>/temp_segments, or NoDir
    published,  \* output files / uploaded objects: [audio, vtt]
    pc,         \* where the run stands
    segments,   \* the parsed segments
    i,          \* index of the segment the loop is at (1-based)
    was_cached, \* generate_episode: the outcome of the stats probe
    audio_segments,  \* the clips handed to concatenation, in order
    timing_info,     \* the timeline
    current_time,    \* the running clock, ms
    cache_hits,
    api_calls,
    missing,    \* normalize_and_reassemble: the verification listing
    result,     \* what the run returned or raised
    errors,     \* what the run printed or raised as errors
    inv,        \* the generate_segment invocations in flight, per caller
    log,        \* per caller: cache and synthesizer calls of the current run
    prev,       \* the previous run of this pipeline, or NoRun
    tpc,        \* timestamps: "in" before formatting, "rendered" after
    t1,         \* a time, in tenths of a millisecond
    t2,         \* another time
    stamp1,     \* format_vtt_timestamp of t1
    stamp2,     \* format_vtt_timestamp of t2
    ppc,        \* parser: "loop" while lines are read, "returned" after
    content,    \* the text of a script: its lines, each a sequence of characters
    lineno,     \* the line the parser's loop is at (1-based)
    parsed,     \* the parser's segment list so far
    web,        \* generate_episode_web: where the request stands, what it holds
    database    \* the row of the episode in the D1 database, or NoRow

kvars == <<kpc, reqA, reqB, korder, keyA, keyB>>

tvars == <<tpc, t1, t2, stamp1, stamp2>>

parsevars == <<ppc, content, lineno, parsed>>

webvars == <<web, database>>

\* what no step of a pipeline or of the key study changes
envvars == <<entry, script, tvars, parsevars, webvars>>

storevars == <<cache, at_start, temp_dir, published>>

runvars ==
    <<pc, segments, i, was_cached, audio_segments, timing_info, current_time,
      cache_hits, api_calls, missing, result, errors>>

pvars == <<envvars, storevars, runvars, inv, log, prev>>

vars == <<kvars, pvars>>

(***************************************************************************)
(* Scripts and segments.  A line is held as what the parser's regular      *)
(* expressions make of it: its kind, the speaker label and the text left   *)
(* after cleaning.                                                         *)
(***************************************************************************)
NoneText == "None"

SpeechLine(speaker, text) == [kind |-> "speech", speaker |-> speaker, text |-> text]

HeaderLine == [kind |-> "header", speaker |-> "", text |-> ""]

Segment(speaker, text) == [speaker |-> speaker, text |-> text]

PauseSegment == Segment("PAUSE", NoneText)

IsSpeech(seg) == seg.speaker \in {"ERIC", "MAYA"}

\* a plausible slip: the speaker is not checked against the closed set
LineSegmentsAnySpeaker(line) ==
    IF line.kind = "speech"
    THEN IF line.text /= "" THEN <<Segment(line.speaker, line.text)>> ELSE << >>
    ELSE IF line.kind = "header" THEN <<PauseSegment>> ELSE << >>

\* a plausible slip: the text is not checked for being empty
LineSegmentsAnyText(line) ==
    IF line.kind = "speech"
    THEN IF line.speaker \in {"ERIC", "MAYA"}
         THEN <<Segment(line.speaker, line.text)>>
         ELSE << >>
    ELSE IF line.kind = "header" THEN <<PauseSegment>> ELSE << >>

\* what one line adds to the segment list (the body of the parser's loop)
LineSegments(line) ==
    IF line.kind = "speech"
    THEN IF line.text /= "" /\ line.speaker \in {"ERIC", "MAYA"}
         THEN <<Segment(line.speaker, line.text)>>
         ELSE << >>
    ELSE IF line.kind = "header" THEN <<PauseSegment>> ELSE << >>

RECURSIVE parse_script(_)
parse_script(lines) ==
    IF lines = << >> THEN << >>
    ELSE LineSegments(Head(lines)) \o parse_script(Tail(lines))

\* python/generate.py parses the same way
parse_podcast_script(lines) == parse_script(lines)

(***************************************************************************)
(* The parser on the text of a script.  A line is a sequence of            *)
(* one-character strings, and the string methods and regular expressions   *)
(* of the parser are computed on it.                                       *)
(***************************************************************************)
Whitespace == {" ", "\t"}

Uppercase ==
    {"A", "B", "C", "D", "E", "F", "G", "H", "I", "J", "K", "L", "M",
     "N", "O", "P", "Q", "R", "S", "T", "U", "V", "W", "X", "Y", "Z"}

\* the string a sequence of characters spells
RECURSIVE Join(_)
Join(chars) ==
    IF chars = << >> THEN "" ELSE Head(chars) \o Join(Tail(chars))

RECURSIVE lstrip(_)
lstrip(s) ==
    IF s /= << >> /\ Head(s) \in Whitespace THEN lstrip(Tail(s)) ELSE s

RECURSIVE rstrip(_)
rstrip(s) ==
    IF s /= << >> /\ s[Len(s)] \in Whitespace
    THEN rstrip(SubSeq(s, 1, Len(s) - 1))
    ELSE s

\* str.strip()
strip(s) == rstrip(lstrip(s))

\* the literal stands in s at position p
LiteralAt(s, p, literal) ==
    /\ p + Len(literal) - 1 <= Len(s)
    /\ \A j \in 1..Len(literal) : s[p + j - 1] = literal[j]

\* str.startswith(literal)
startswith(s, literal) == LiteralAt(s, 1, literal)

\* the first position from p on where the literal stands in s, 0 for none
RECURSIVE Find(_, _, _)
Find(s, p, literal) ==
    IF p > Len(s) THEN 0
    ELSE IF LiteralAt(s, p, literal) THEN p
    ELSE Find(s, p + 1, literal)

\* how many characters of the class stand in a row from position p of s
RECURSIVE Run(_, _, _)
Run(s, p, class) ==
    IF p <= Len(s) /\ s[p] \in class THEN 1 + Run(s, p + 1, class) ELSE 0

\* how many characters other than ch stand in a row from position p of s
RECURSIVE RunNot(_, _, _)
RunNot(s, p, ch) ==
    IF p <= Len(s) /\ s[p] /= ch THEN 1 + RunNot(s, p + 1, ch) ELSE 0

NoMatch == [matched |-> FALSE, speaker |-> << >>, text |-> << >>]

\* re.match(r"\*\*([A-Z]+):\*\*\s*(.*)", line): groups 1 and 2
speaker_match(line) ==
    LET n == Run(line, 3, Uppercase)
        rest == 3 + n + 3
    IN  IF /\ LiteralAt(line, 1, <<"*", "*">>)
           /\ n >= 1
           /\ LiteralAt(line, 3 + n, <<":", "*", "*">>)
        THEN [matched |-> TRUE,
              speaker |-> SubSeq(line, 3, 2 + n),
              text |-> SubSeq(line, rest + Run(line, rest, Whitespace), Len(line))]
        ELSE NoMatch

\* the length of the pattern's match at position p of s, 0 for none:
\*   "src"      \{\{src:[^}]+\}\}
\*   "bold"     \*\*\[.*?\]\*\*
\*   "bracket"  \[.*?\]
MatchLength(pattern, s, p) ==
    IF pattern = "src"
    THEN LET n == RunNot(s, p + 6, "}")
         IN  IF /\ LiteralAt(s, p, <<"{", "{", "s", "r", "c", ":">>)
                /\ n >= 1
                /\ LiteralAt(s, p + 6 + n, <<"}", "}">>)
             THEN 6 + n + 2
             ELSE 0
    ELSE IF pattern = "bold"
    THEN LET q == Find(s, p + 3, <<"]", "*", "*">>)
         IN  IF LiteralAt(s, p, <<"*", "*", "[">>) /\ q > 0 THEN q + 3 - p ELSE 0
    ELSE LET q == Find(s, p + 1, <<"]">>)
         IN  IF LiteralAt(s, p, <<"[">>) /\ q > 0 THEN q + 1 - p ELSE 0

\* re.sub(pattern, "", s), scanning from position p
RECURSIVE re_sub(_, _, _)
re_sub(pattern, s, p) ==
    IF p > Len(s) THEN << >>
    ELSE LET n == MatchLength(pattern, s, p)
         IN  IF n > 0 THEN re_sub(pattern, s, p + n)
             ELSE <<s[p]>> \o re_sub(pattern, s, p + 1)

\* s.replace(literal, ""), scanning from position p
RECURSIVE replace(_, _, _)
replace(s, p, literal) ==
    IF p > Len(s) THEN << >>
    ELSE IF LiteralAt(s, p, literal) THEN replace(s, p + Len(literal), literal)
    ELSE <<s[p]>> \o replace(s, p + 1, literal)

\* the clean-up of a speech line's text
clean_text(text) ==
    LET no_src == re_sub("src", text, 1)
        no_bold == re_sub("bold", no_src, 1)
        no_brackets == re_sub("bracket", no_bold, 1)
    IN  strip(replace(replace(no_brackets, 1, <<"*", "*">>), 1, <<"*">>))

OtherLine == [kind |-> "other", speaker |-> "", text |-> ""]

\* what the parser's loop makes of one line of the text before it decides
\* on a segment: stripped, matched against the speaker pattern, cleaned
ClassifyLine(raw) ==
    LET line == strip(raw)
        m == speaker_match(line)
    IN  IF line = << >> THEN OtherLine
        ELSE IF m.matched THEN SpeechLine(Join(m.speaker), Join(clean_text(m.text)))
        ELSE IF startswith(line, <<"#", "#", " ", "[">>) THEN HeaderLine
        ELSE OtherLine

\* the lines script texts are made of
ParseLines ==
    { << >>,
      <<" ", "\t">>,
      <<"*", "*", "E", "R", "I", "C", ":", "*", "*", " ", "H", "i">>,
      <<" ", "*", "*", "M", "A", "Y", "A", ":", "*", "*", " ", "*", "O", "h", "*",
        "[", "x", "]", "*", "*", "[", "y", "]", "*", "*",
        "{", "{", "s", "r", "c", ":", "a", "}", "}", " ">>,
      <<"*", "*", "B", "O", "B", ":", "*", "*", " ", "Y", "o">>,
      <<"*", "*", "M", "A", "Y", "A", ":", "*", "*", " ", "[", "x", "]">>,
      <<"*", "*", "E", "r", "i", "c", ":", "*", "*", " ", "H", "i">>,
      <<"E", "R", "I", "C", ":", " ", "H", "i">>,
      <<"*", "*", "E", "R", "I", "C", ":", "*", "*", " ", "N", "o",
        "{", "{", "p", "a", "g", "e", ":", "4", "}", "}">>,
      <<"#", "#", " ", "[", "I", "]">>,
      <<" ", "#", "#", " ", "[", "I", "]">>,
      <<"#", " ", "T">> }

ParseScripts == UNION {[1..n -> ParseLines] : n \in 0..MaxParseLines}

ParseIdle ==
    /\ ppc = "off"
    /\ content = << >>
    /\ lineno = 1
    /\ parsed = << >>

\* the lines scripts are made of
Lines ==
    {SpeechLine("ERIC", "Hello there."), SpeechLine("MAYA", "Hi Eric!"),
     SpeechLine("BOB", "Hey."), HeaderLine}

Scripts == UNION {[1..n -> Lines] : n \in 0..MaxLines}

(***************************************************************************)
(* Audio.  A clip is [id, level]: id names the recording, level says what  *)
(* was done to it.  The cache holds non-empty clips.                       *)
(***************************************************************************)
Clip(id, level) == [id |-> id, level |-> level]

Absent == Clip(0, "absent")

Failed == Clip(0, "failed")

RawClips == {Clip(n, "raw") : n \in 1..MaxClip}

\* modal/src/audio.py normalize_audio(raw, TARGET_LUFS): the same recording,
\* levelled; deterministic
normalize_audio_modal(raw) == Clip(raw.id, "normalized")

generate_silence(duration_ms) == Clip(duration_ms, "silence")

\* ffprobe's duration of a clip in ms; 0 when the file cannot be read
get_audio_duration(clip) ==
    IF clip.level \in {"raw", "normalized", "two_pass", "single_pass"}
    THEN 1000 * clip.id
    ELSE IF clip.level = "silence" THEN clip.id ELSE 0

\* generate_silence: anullsrc=r=44100:cl=mono
SilenceEncoding == [rate |-> 44100, layout |-> "mono"]

\* sample rate and channel layout of a clip: nothing in the code sets or
\* checks those of a recording; recording 1 is encoded as the silences are,
\* the other recordings at another sample rate
Encoding(clip) ==
    IF clip.level = "silence" \/ clip.id = 1 THEN SilenceEncoding
    ELSE [rate |-> 22050, layout |-> "mono"]

\* Python truth of `bytes | None` / `Path | None`
Truthy(x) == x /= Absent

VoiceOf(speaker) == VOICES[speaker]

LocalVoiceOf(speaker) ==
    IF speaker = "ERIC" THEN ELEVENLABS_ERIC_VOICE ELSE ELEVENLABS_MAYA_VOICE

SpeechPairs == {<<"ERIC", "Hello there.">>, <<"MAYA", "Hi Eric!">>}

Entries == {"modal", "main", "preview", "normalize"}

KeyFor(e, speaker, text) ==
    IF e = "modal" THEN compute_cache_key(text, VoiceOf(speaker))
    ELSE get_cache_key(text, LocalVoiceOf(speaker))

Keys(e) == {KeyFor(e, sp[1], sp[2]) : sp \in SpeechPairs}

\* the Modal cache holds normalized clips, the local cache raw ones
StoredClips(e) ==
    IF e = "modal" THEN {normalize_audio_modal(r) : r \in RawClips} ELSE RawClips

Caches(e) == [Keys(e) -> StoredClips(e) \cup {Absent}]

(***************************************************************************)
(* Storage: modal/src/storage.py (R2) and the local .cache directory.      *)
(***************************************************************************)
get_cached_segment(store, cache_key) == store[cache_key]

\* a plausible slip: the object is put under another name than get reads
save_cached_segment_elsewhere(store, cache_key, audio_data) == store

save_cached_segment(store, cache_key, audio_data) ==
    [store EXCEPT ![cache_key] = audio_data]

get_cached_audio(store, cache_key) == store[cache_key]

save_to_cache(store, cache_key, audio_data) ==
    [store EXCEPT ![cache_key] = audio_data]

NoDir == [exists |-> FALSE, files |-> {}]

NoFile == [written |-> FALSE, data |-> << >>]

Unpublished == [audio |-> NoFile, vtt |-> NoFile]

Snapshot == [cache |-> cache, temp_dir |-> temp_dir, published |-> published]

(***************************************************************************)
(* Runs.                                                                   *)
(***************************************************************************)
Callers == {"episode", "client"}

IdleInv == [pc |-> "idle", text |-> "", speaker |-> "", audio |-> Absent]

Event(op, key, val) == [op |-> op, key |-> key, val |-> val]

NoRun ==
    [ran |-> FALSE, start |-> << >>, end |-> << >>, timeline |-> << >>,
     result |-> "none", errors |-> << >>]

RunIdle ==
    /\ pc = "idle"
    /\ segments = << >>
    /\ i = 1
    /\ was_cached = FALSE
    /\ audio_segments = << >>
    /\ timing_info = << >>
    /\ current_time = 0
    /\ cache_hits = 0
    /\ api_calls = 0
    /\ missing = << >>
    /\ result = "none"
    /\ errors = << >>

\* no row of the episode
NoRow == [exists |-> FALSE, audio_url |-> "", transcript_url |-> ""]

\* generate_episode is not called through the web endpoint
WebIdle ==
    /\ web = [pc |-> "off", metadata |-> FALSE, response |-> "none"]
    /\ database = NoRow

PipelineIdle ==
    /\ WebIdle
    /\ entry = "off"
    /\ script = << >>
    /\ cache = << >>
    /\ temp_dir = NoDir
    /\ published = Unpublished
    /\ at_start = Snapshot
    /\ RunIdle
    /\ inv = [c \in Callers |-> IdleInv]
    /\ log = [c \in Callers |-> << >>]
    /\ prev = NoRun

(***************************************************************************)
(* python/generate.py format_vtt_timestamp.  Times are held in tenths of a *)
(* millisecond, so that a time can lie less than half a millisecond below  *)
(* a whole second; the times tried have no tenth-digit 5, where the        *)
(* rounding of the float formatter depends on the binary representation.   *)
(***************************************************************************)
\* the fields of HH:MM:SS.mmm as numbers; `{secs:06.3f}` rounds the seconds
\* to the nearest millisecond
format_vtt_timestamp(seconds) ==
    LET hours == seconds \div 36000000
        minutes == (seconds % 36000000) \div 600000
        secs == seconds % 600000
        rounded == (secs + 5) \div 10
    IN  [hh |-> hours, mm |-> minutes, ss |-> rounded \div 1000, mmm |-> rounded % 1000]

NoStamp == [hh |-> 0, mm |-> 0, ss |-> 0, mmm |-> 0]

StampIdle ==
    /\ tpc = "off"
    /\ t1 = 0
    /\ t2 = 0
    /\ stamp1 = NoStamp
    /\ stamp2 = NoStamp

\* times on both sides of the second, minute and hour boundaries
StampTimes ==
    {h * 36000000 + m * 600000 + d :
        h \in 0..MaxStampHours, m \in {0, 1, 59},
        d \in {0, 4, 15000, 599994, 599996}}

(***************************************************************************)
(* Key functions as a state machine: form two requests, hash both.         *)
(***************************************************************************)
KeyTexts == {"Hello there.", "Hi Eric!"}

VoiceIds == {ELEVENLABS_ERIC_VOICE, ELEVENLABS_MAYA_VOICE}

\* other values a configuration can be edited to
AltValue ==
    [model_id |-> "eleven_multilingual_v2", stability |-> "0.3",
     similarity_boost |-> "0.9", style |-> "0.4", use_speaker_boost |-> FALSE,
     target_lufs |-> -14]

Request(text, voice_id, cfg, normalized) ==
    [text |-> text, voice_id |-> voice_id, cfg |-> cfg, normalized |-> normalized]

\* the pipeline that serves a request: the Modal one normalizes and keys with
\* compute_cache_key, the local one does not and keys with get_cache_key
fingerprint(req, order) ==
    IF req.normalized
    THEN compute_cache_key_in(req.text, req.voice_id, req.cfg, order)
    ELSE get_cache_key_in(req.text, req.voice_id, order)

KeyIdle ==
    /\ kpc = "off"
    /\ reqA = Request("", "", Deployed, TRUE)
    /\ reqB = reqA
    /\ korder = SourceOrder(8)
    /\ keyA = "none"
    /\ keyB = "none"

KeyInit ==
    /\ PipelineIdle
    /\ StampIdle
    /\ ParseIdle
    /\ kpc = "build"
    /\ reqA \in {Request(t, v, Deployed, n) :
                    t \in KeyTexts, v \in VoiceIds, n \in BOOLEAN}
    /\ reqB = reqA
    /\ korder = SourceOrder(8)
    /\ keyA = "none"
    /\ keyB = "none"

\* reqB becomes reqA with one synthesis input changed
VaryInput ==
    /\ kpc = "build"
    /\ reqB = reqA
    /\ \/ \E t \in KeyTexts \ {reqA.text} : reqB' = [reqB EXCEPT !.text = t]
       \/ \E v \in VoiceIds \ {reqA.voice_id} : reqB' = [reqB EXCEPT !.voice_id = v]
       \/ reqB' = [reqB EXCEPT !.normalized = ~reqA.normalized]
    /\ UNCHANGED <<kpc, reqA, korder, keyA, keyB, pvars>>

\* reqB becomes reqA with one entry of the deployment's configuration changed
\* (the local script's settings are literals inside get_cache_key itself)
VaryConfig ==
    /\ kpc = "build"
    /\ reqB = reqA
    /\ reqA.normalized
    /\ \/ reqB' = [reqB EXCEPT !.cfg.model_id = AltValue.model_id]
       \/ reqB' = [reqB EXCEPT !.cfg.target_lufs = AltValue.target_lufs]
       \/ \E s \in DOMAIN VOICE_SETTINGS :
            reqB' = [reqB EXCEPT !.cfg.voice_settings[s] = AltValue[s]]
    /\ UNCHANGED <<kpc, reqA, korder, keyA, keyB, pvars>>

Swapped(order, j) ==
    [order EXCEPT ![j] = order[j + 1], ![j + 1] = order[j]]

Inversions(order) ==
    Cardinality({p \in (1..Len(order)) \X (1..Len(order)) :
                    p[1] < p[2] /\ order[p[1]] > order[p[2]]})

\* reqB's dict is built with two neighbouring fields in the other order
SwapFields ==
    /\ kpc = "build"
    /\ \E j \in 1..(Len(korder) - 1) :
         /\ korder[j] < korder[j + 1]
         /\ Inversions(korder) < MaxSwaps
         /\ korder' = Swapped(korder, j)
    /\ UNCHANGED <<kpc, reqA, reqB, keyA, keyB, pvars>>

Fingerprint ==
    /\ kpc = "build"
    /\ kpc' = "hashed"
    /\ keyA' = fingerprint(reqA, SourceOrder(8))
    /\ keyB' = fingerprint(reqB, korder)
    /\ UNCHANGED <<reqA, reqB, korder, pvars>>

KeyNext == VaryInput \/ VaryConfig \/ SwapFields \/ Fingerprint

KeySpec == KeyInit /\ [][KeyNext]_vars

(***************************************************************************)
(* The assembler's bookkeeping, shared by generate_episode, main and       *)
(* normalize_and_reassemble.                                               *)
(***************************************************************************)
\* a plausible slip: the entry is closed after the trailing silence
TimelineEntryAfterSilence(seg, start, audio) ==
    [speaker |-> seg.speaker, text |-> seg.text,
     start |-> start, end |-> start + get_audio_duration(audio) + 300]

TimelineEntry(seg, start, audio) ==
    [speaker |-> seg.speaker, text |-> seg.text,
     start |-> start, end |-> start + get_audio_duration(audio)]

\* a plausible slip: the trailing silence is appended but not counted
AppendSpeechSilenceUncounted(seg, audio) ==
    /\ audio_segments' = audio_segments \o <<audio, generate_silence(300)>>
    /\ timing_info' = Append(timing_info, TimelineEntry(seg, current_time, audio))
    /\ current_time' = current_time + get_audio_duration(audio)

\* the clip, its timeline entry, and the 300 ms pause after it
AppendSpeech(seg, audio) ==
    /\ audio_segments' = audio_segments \o <<audio, generate_silence(300)>>
    /\ timing_info' = Append(timing_info, TimelineEntry(seg, current_time, audio))
    /\ current_time' = current_time + get_audio_duration(audio) + 300

\* the 800 ms silence of a section break
AppendPause ==
    /\ audio_segments' = Append(audio_segments, generate_silence(800))
    /\ current_time' = current_time + 800
    /\ UNCHANGED timing_info

\* a plausible slip: the label of the script is written as it is
CapitalizeNot(speaker) == speaker

Capitalize(speaker) ==
    IF speaker = "ERIC" THEN "Eric" ELSE IF speaker = "MAYA" THEN "Maya" ELSE speaker

\* the cues of the WebVTT document, in the order written
generate_webvtt(segments_with_timing) ==
    LET cue(j) ==
            [number |-> j, start |-> segments_with_timing[j].start,
             end |-> segments_with_timing[j].end,
             voice |-> Capitalize(segments_with_timing[j].speaker),
             text |-> segments_with_timing[j].text]
        kept == SelectSeq([j \in 1..Len(segments_with_timing) |-> j],
                          LAMBDA j : segments_with_timing[j].speaker /= "PAUSE")
    IN  [n \in 1..Len(kept) |-> cue(kept[n])]

File(data) == [written |-> TRUE, data |-> data]

Ended(res, err) ==
    /\ pc' = "ended"
    /\ result' = res
    /\ errors' = IF err = "" THEN errors ELSE Append(errors, err)

Logged(c, events) == log' = [log EXCEPT ![c] = log[c] \o events]

AtSegment == pc = "loop" /\ i <= Len(segments)

AtEnd == pc = "loop" /\ i > Len(segments)

(***************************************************************************)
(* modal/src/generator.py: generate_episode and generate_segment.          *)
(* generate_segment is a Modal function: generate_episode calls it for     *)
(* each speech segment, and any other client may call it at the same time. *)
(***************************************************************************)
\* parse; an empty script is refused
ModalStart ==
    /\ entry = "modal"
    /\ pc = "idle"
    /\ web.pc \in {"off", "generating"}
    /\ segments' = parse_script(script)
    /\ at_start' = Snapshot
    /\ IF segments' = << >>
       THEN Ended("raise ValueError", "No valid segments found in script")
       ELSE pc' = "loop" /\ UNCHANGED <<result, errors>>
    /\ UNCHANGED <<i, was_cached, audio_segments, timing_info, current_time,
                   cache_hits, api_calls, missing>>
    /\ UNCHANGED <<kvars, envvars, cache, temp_dir, published, inv, log, prev>>

ModalPause ==
    /\ entry = "modal"
    /\ AtSegment
    /\ segments[i].speaker = "PAUSE"
    /\ AppendPause
    /\ i' = i + 1
    /\ UNCHANGED <<pc, segments, was_cached, cache_hits, api_calls, missing,
                   result, errors>>
    /\ UNCHANGED <<kvars, envvars, storevars, inv, log, prev>>

\* the probe made for the statistics, then the call of generate_segment
ModalProbe ==
    /\ entry = "modal"
    /\ AtSegment
    /\ segments[i].speaker /= "PAUSE"
    /\ LET cache_key == compute_cache_key(segments[i].text, VoiceOf(segments[i].speaker))
           probed == get_cached_segment(cache, cache_key)
       IN  /\ was_cached' = (probed /= Absent)
           /\ Logged("episode", <<Event("get", cache_key, probed)>>)
    /\ pc' = "remote"
    /\ inv' = [inv EXCEPT !["episode"] =
                  [pc |-> "get", text |-> segments[i].text,
                   speaker |-> segments[i].speaker, audio |-> Absent]]
    /\ UNCHANGED <<segments, i, audio_segments, timing_info, current_time,
                   cache_hits, api_calls, missing, result, errors>>
    /\ UNCHANGED <<kvars, envvars, storevars, prev>>

\* generate_segment returned `audio` to its caller
Returned(c, audio) ==
    /\ inv' = [inv EXCEPT ![c] = IdleInv]
    /\ IF c = "episode"
       THEN /\ AppendSpeech(segments[i], audio)
            /\ i' = i + 1
            /\ pc' = "loop"
            /\ cache_hits' = IF was_cached THEN cache_hits + 1 ELSE cache_hits
            /\ api_calls' = IF was_cached THEN api_calls ELSE api_calls + 1
            /\ UNCHANGED <<segments, was_cached, missing, result, errors>>
       ELSE UNCHANGED runvars

\* generate_segment raised: the exception passes through generate_episode
Raised(c, what) ==
    /\ inv' = [inv EXCEPT ![c] = IdleInv]
    /\ IF c = "episode"
       THEN /\ Ended("raise", what)
            /\ UNCHANGED <<segments, i, was_cached, audio_segments, timing_info,
                           current_time, cache_hits, api_calls, missing>>
       ELSE UNCHANGED runvars

InvKey(c) == compute_cache_key(inv[c].text, VoiceOf(inv[c].speaker))

\* a plausible slip: the cached clip is ignored and the segment synthesized anyway
SegHitNever(cached) == FALSE

\* `if cached:`
SegHit(cached) == Truthy(cached)

\* generate_segment: the cache lookup, and the return on a hit
SegGet(c) ==
    /\ inv[c].pc = "get"
    /\ LET cached == get_cached_segment(cache, InvKey(c))
       IN  /\ Logged(c, <<Event("get", InvKey(c), cached)>>)
           /\ IF SegHit(cached)
              THEN Returned(c, cached)
              ELSE /\ inv' = [inv EXCEPT ![c].pc = "synth"]
                   /\ UNCHANGED runvars
    /\ UNCHANGED <<kvars, envvars, storevars, prev>>

\* a plausible slip: the recording is kept as the synthesizer delivered it
SegSynthReturnsRaw(c) ==
    /\ \E raw \in RawClips :
         /\ inv' = [inv EXCEPT ![c].pc = "save", ![c].audio = raw]
         /\ Logged(c, <<Event("synth", InvKey(c), raw)>>)
    /\ UNCHANGED runvars
    /\ UNCHANGED cache

\* text_to_speech.convert returned a recording; it is normalized
SegSynthReturns(c) ==
    /\ \E raw \in RawClips :
         /\ inv' = [inv EXCEPT ![c].pc = "save",
                               ![c].audio = normalize_audio_modal(raw)]
         /\ Logged(c, <<Event("synth", InvKey(c), raw)>>)
    /\ UNCHANGED runvars
    /\ UNCHANGED cache

\* a plausible slip: the cache entry is written before the call has succeeded
SegSynthRaisesAfterWrite(c) ==
    /\ Logged(c, <<Event("synth", InvKey(c), Failed)>>)
    /\ cache' = save_cached_segment(cache, InvKey(c), Clip(1, "normalized"))
    /\ Raised(c, "synthesis failed")

\* text_to_speech.convert raised (quota, network): nothing after it runs
SegSynthRaises(c) ==
    /\ Logged(c, <<Event("synth", InvKey(c), Failed)>>)
    /\ UNCHANGED cache
    /\ Raised(c, "synthesis failed")

\* generate_segment: text_to_speech.convert, then normalize_audio
SegSynth(c) ==
    /\ inv[c].pc = "synth"
    /\ (SegSynthReturns(c) \/ SegSynthRaises(c))
    /\ UNCHANGED <<kvars, envvars, at_start, temp_dir, published, prev>>

\* generate_segment: save_cached_segment, then the return
SegSave(c) ==
    /\ inv[c].pc = "save"
    /\ cache' = save_cached_segment(cache, InvKey(c), inv[c].audio)
    /\ Logged(c, <<Event("put", InvKey(c), inv[c].audio)>>)
    /\ Returned(c, inv[c].audio)
    /\ UNCHANGED <<kvars, envvars, at_start, temp_dir, published, prev>>

\* R2 answers a get or a put with an error other than NoSuchKey
StorageFault(c) ==
    /\ inv[c].pc \in {"get", "save"}
    /\ Logged(c, <<Event("fault", InvKey(c), Failed)>>)
    /\ Raised(c, "ClientError")
    /\ UNCHANGED <<kvars, envvars, storevars, prev>>

\* another caller invokes generate_segment while the episode is generated
ClientInvoke ==
    /\ entry = "modal"
    /\ inv["client"].pc = "idle"
    /\ \E sp \in SpeechPairs :
         inv' = [inv EXCEPT !["client"] =
                    [pc |-> "get", text |-> sp[2], speaker |-> sp[1], audio |-> Absent]]
    /\ log' = [log EXCEPT !["client"] = << >>]
    /\ UNCHANGED <<kvars, envvars, storevars, runvars, prev>>

\* concatenate, write the transcript, upload both, return the statistics
ModalFinish ==
    /\ entry = "modal"
    /\ AtEnd
    /\ \/ /\ published' = [audio |-> File(audio_segments),
                           vtt |-> File(generate_webvtt(timing_info))]
          /\ Ended("return dict", "")
       \/ /\ UNCHANGED published
          /\ Ended("raise", "concatenation or upload of the episode failed")
       \/ /\ published' = [published EXCEPT !.audio = File(audio_segments)]
          /\ Ended("raise", "upload of the transcript failed")
    /\ UNCHANGED <<segments, i, was_cached, audio_segments, timing_info,
                   current_time, cache_hits, api_calls, missing>>
    /\ UNCHANGED <<kvars, envvars, cache, at_start, temp_dir, inv, log, prev>>

(***************************************************************************)
(* python/generate.py: main (ElevenLabs or --preview).                     *)
(***************************************************************************)
TempFiles(names) == [exists |-> TRUE, files |-> temp_dir.files \cup names]

\* mkdir temp_segments, parse
MainStart ==
    /\ entry \in {"main", "preview"}
    /\ pc = "idle"
    /\ temp_dir' = TempFiles({})
    /\ segments' = parse_podcast_script(script)
    /\ at_start' = Snapshot
    /\ pc' = "loop"
    /\ UNCHANGED <<i, was_cached, audio_segments, timing_info, current_time,
                   cache_hits, api_calls, missing, result, errors>>
    /\ UNCHANGED <<kvars, envvars, cache, published, inv, log, prev>>

\* ELEVENLABS_API_KEY is not set: return 1 before anything is created
MainNoApiKey ==
    /\ entry = "main"
    /\ pc = "idle"
    /\ Ended("return 1", "ELEVENLABS_API_KEY not set")
    /\ at_start' = Snapshot
    /\ UNCHANGED <<segments, i, was_cached, audio_segments, timing_info,
                   current_time, cache_hits, api_calls, missing>>
    /\ UNCHANGED <<kvars, envvars, cache, temp_dir, published, inv, log, prev>>

LocalPause ==
    /\ entry \in {"main", "preview", "normalize"}
    /\ AtSegment
    /\ segments[i].speaker = "PAUSE"
    /\ AppendPause
    /\ temp_dir' = TempFiles({<<"segment", i>>})
    /\ i' = i + 1
    /\ UNCHANGED <<pc, segments, was_cached, cache_hits, api_calls, missing,
                   result, errors>>
    /\ UNCHANGED <<kvars, envvars, cache, at_start, published, inv, log, prev>>

LocalKey(seg) == get_cache_key(seg.text, LocalVoiceOf(seg.speaker))

\* generate_audio_elevenlabs found the clip in the cache: "cached"
ElevenLabsCached(cache_key) ==
    /\ Truthy(get_cached_audio(cache, cache_key))
    /\ Logged("episode", <<Event("get", cache_key, get_cached_audio(cache, cache_key))>>)
    /\ AppendSpeech(segments[i], get_cached_audio(cache, cache_key))
    /\ temp_dir' = TempFiles({<<"segment", i>>, <<"pause", i>>})
    /\ cache_hits' = cache_hits + 1
    /\ UNCHANGED <<cache, api_calls, errors>>

\* a plausible slip: the lookup's result is not tested before the API is called
ElevenLabsGeneratedAnyway(cache_key) ==
    /\ \E audio_data \in RawClips :
         /\ Logged("episode", <<Event("get", cache_key, get_cached_audio(cache, cache_key)),
                                Event("synth", cache_key, audio_data),
                                Event("put", cache_key, audio_data)>>)
         /\ cache' = save_to_cache(cache, cache_key, audio_data)
         /\ AppendSpeech(segments[i], audio_data)
    /\ temp_dir' = TempFiles({<<"segment", i>>, <<"pause", i>>})
    /\ api_calls' = api_calls + 1
    /\ UNCHANGED <<cache_hits, errors>>

\* generate_audio_elevenlabs synthesized, cached and wrote the clip: "generated"
ElevenLabsGenerated(cache_key) ==
    /\ ~Truthy(get_cached_audio(cache, cache_key))
    /\ \E audio_data \in RawClips :
         /\ Logged("episode", <<Event("get", cache_key, Absent),
                                Event("synth", cache_key, audio_data),
                                Event("put", cache_key, audio_data)>>)
         /\ cache' = save_to_cache(cache, cache_key, audio_data)
         /\ AppendSpeech(segments[i], audio_data)
    /\ temp_dir' = TempFiles({<<"segment", i>>, <<"pause", i>>})
    /\ api_calls' = api_calls + 1
    /\ UNCHANGED <<cache_hits, errors>>

\* the API call raised: the error is printed, None returned, the segment skipped
ElevenLabsFailed(cache_key) ==
    /\ ~Truthy(get_cached_audio(cache, cache_key))
    /\ Logged("episode", <<Event("get", cache_key, Absent),
                           Event("synth", cache_key, Failed)>>)
    /\ errors' = Append(errors, "Error generating audio")
    /\ UNCHANGED <<cache, temp_dir, audio_segments, timing_info, current_time,
                   cache_hits, api_calls>>

MainSegment ==
    /\ entry = "main"
    /\ AtSegment
    /\ segments[i].speaker /= "PAUSE"
    /\ \/ ElevenLabsCached(LocalKey(segments[i]))
       \/ ElevenLabsGenerated(LocalKey(segments[i]))
       \/ ElevenLabsFailed(LocalKey(segments[i]))
    /\ i' = i + 1
    /\ UNCHANGED <<pc, segments, was_cached, missing, result>>
    /\ UNCHANGED <<kvars, envvars, at_start, published, inv, prev>>

\* what `say` and the conversion to MP3 produce
SayClip == Clip(1, "raw")

\* --preview: macOS `say`, no cache; a failed segment is skipped without a word
PreviewSegment ==
    /\ entry = "preview"
    /\ AtSegment
    /\ segments[i].speaker /= "PAUSE"
    /\ \/ /\ Logged("episode", <<Event("say", LocalKey(segments[i]), SayClip)>>)
          /\ AppendSpeech(segments[i], SayClip)
          /\ temp_dir' = TempFiles({<<"segment", i>>, <<"pause", i>>})
       \/ /\ Logged("episode", <<Event("say", LocalKey(segments[i]), Failed)>>)
          /\ UNCHANGED <<temp_dir, audio_segments, timing_info, current_time>>
    /\ i' = i + 1
    /\ UNCHANGED <<pc, segments, was_cached, cache_hits, api_calls, missing,
                   result, errors>>
    /\ UNCHANGED <<kvars, envvars, cache, at_start, published, inv, prev>>

\* concatenate_with_ffmpeg, then (on success) the transcript and the cleanup;
\* ffmpeg's concat demuxer refuses a list that names no file, and a list
\* that names a file that does not exist
LocalFinish ==
    /\ entry \in {"main", "preview", "normalize"}
    /\ AtEnd
    /\ \/ /\ audio_segments /= << >>
          /\ \A j \in 1..Len(audio_segments) : audio_segments[j].level /= "missing"
          /\ published' = [audio |-> File(audio_segments),
                           vtt |-> File(generate_webvtt(timing_info))]
          /\ temp_dir' = NoDir
          /\ Ended("return 0", "")
       \/ /\ temp_dir' = TempFiles({<<"filelist", 0>>})
          /\ UNCHANGED published
          /\ Ended("return 1", "Error combining audio files")
    /\ UNCHANGED <<segments, i, was_cached, audio_segments, timing_info,
                   current_time, cache_hits, api_calls, missing>>
    /\ UNCHANGED <<kvars, envvars, cache, at_start, inv, log, prev>>

(***************************************************************************)
(* python/generate.py: normalize_and_reassemble (--normalize).             *)
(***************************************************************************)
\* len(text) for the texts of the model's scripts
TextLength(text) ==
    IF text = "Hello there." THEN 12
    ELSE IF text = "Hi Eric!" THEN 8 ELSE 4

\* text[:n]
TextPrefix(text, n) == IF TextLength(text) <= n THEN text ELSE "(cut)"

\* a plausible slip: every speech segment is listed, cached or not
IsMissingAlways(store, seg) == IsSpeech(seg)

\* the test of the verification loop: a speech segment with no cached clip
IsMissing(store, seg) ==
    /\ IsSpeech(seg)
    /\ ~Truthy(get_cached_audio(store, LocalKey(seg)))

\* the verification listing: (index, speaker, start of the text), 0-based index
VerifyCache(segs, store) ==
    LET idx == SelectSeq([j \in 1..Len(segs) |-> j],
                         LAMBDA j : IsMissing(store, segs[j]))
    IN  [n \in 1..Len(idx) |->
            <<idx[n] - 1, segs[idx[n]].speaker, TextPrefix(segs[idx[n]].text, 50)>>]

\* the cache lookups the verification loop makes
VerifyLookups(segs, store) ==
    LET idx == SelectSeq([j \in 1..Len(segs) |-> j], LAMBDA j : IsSpeech(segs[j]))
    IN  [n \in 1..Len(idx) |->
            Event("get", LocalKey(segs[idx[n]]),
                  get_cached_audio(store, LocalKey(segs[idx[n]])))]

\* a plausible slip: the listing is printed but the run goes on
AbortOnMissingNever(listing) == FALSE

\* `if missing:` ... return 1
AbortOnMissing(listing) == listing /= << >>

\* parse, verify the cache, and either abort or create temp_segments
NormalizeStart ==
    /\ entry = "normalize"
    /\ pc = "idle"
    /\ segments' = parse_podcast_script(script)
    /\ at_start' = Snapshot
    /\ missing' = VerifyCache(segments', cache)
    /\ Logged("episode", VerifyLookups(segments', cache))
    /\ IF AbortOnMissing(missing')
       THEN /\ Ended("return 1", "segments missing from cache")
            /\ UNCHANGED temp_dir
       ELSE /\ pc' = "loop"
            /\ temp_dir' = TempFiles({})
            /\ UNCHANGED <<result, errors>>
    /\ UNCHANGED <<i, was_cached, audio_segments, timing_info, current_time,
                   cache_hits, api_calls>>
    /\ UNCHANGED <<kvars, envvars, cache, published, inv, prev>>

\* analyze_loudness: the measured statistics of the clip, or None (Failed)
analyze_loudness(cached, measured) ==
    IF measured /\ Truthy(cached) THEN Clip(cached.id, "stats") ELSE Failed

\* analyze_loudness, then normalize_audio with or without the statistics;
\* normalize_audio's result is not looked at
Normalized(cached, measured, corrected) ==
    IF ~corrected \/ ~Truthy(cached) THEN Clip(cached.id, "missing")
    ELSE IF analyze_loudness(cached, measured) /= Failed THEN Clip(cached.id, "two_pass")
    ELSE Clip(cached.id, "single_pass")

\* a plausible slip: the normalized clip is written back to the cache
NormalizeSegmentStoring ==
    /\ entry = "normalize"
    /\ AtSegment
    /\ segments[i].speaker /= "PAUSE"
    /\ LET cached_path == get_cached_audio(cache, LocalKey(segments[i]))
       IN  \E measured \in BOOLEAN, corrected \in BOOLEAN :
             /\ Logged("episode",
                       <<Event("get", LocalKey(segments[i]), cached_path),
                         Event("analyze", LocalKey(segments[i]),
                               analyze_loudness(cached_path, measured)),
                         Event("normalize", LocalKey(segments[i]),
                               Normalized(cached_path, measured, corrected))>>)
             /\ AppendSpeech(segments[i], Normalized(cached_path, measured, corrected))
             /\ cache' = save_to_cache(cache, LocalKey(segments[i]),
                                       Normalized(cached_path, measured, corrected))
    /\ temp_dir' = TempFiles({<<"segment", i>>, <<"pause", i>>})
    /\ i' = i + 1
    /\ UNCHANGED <<pc, segments, was_cached, cache_hits, api_calls, missing,
                   result, errors>>
    /\ UNCHANGED <<kvars, envvars, at_start, published, inv, prev>>

NormalizeSegment ==
    /\ entry = "normalize"
    /\ AtSegment
    /\ segments[i].speaker /= "PAUSE"
    /\ LET cached_path == get_cached_audio(cache, LocalKey(segments[i]))
       IN  \E measured \in BOOLEAN, corrected \in BOOLEAN :
             /\ Logged("episode",
                       <<Event("get", LocalKey(segments[i]), cached_path),
                         Event("analyze", LocalKey(segments[i]),
                               analyze_loudness(cached_path, measured)),
                         Event("normalize", LocalKey(segments[i]),
                               Normalized(cached_path, measured, corrected))>>)
             /\ AppendSpeech(segments[i], Normalized(cached_path, measured, corrected))
    /\ temp_dir' = TempFiles({<<"segment", i>>, <<"pause", i>>})
    /\ i' = i + 1
    /\ UNCHANGED <<pc, segments, was_cached, cache_hits, api_calls, missing,
                   result, errors>>
    /\ UNCHANGED <<kvars, envvars, cache, at_start, published, inv, prev>>

(***************************************************************************)
(* The same pipeline is run again on the same script (a retry, a re-run).  *)
(***************************************************************************)
Rerun ==
    /\ pc = "ended"
    /\ ~prev.ran
    /\ prev' = [ran |-> TRUE, start |-> at_start.cache, end |-> cache,
                timeline |-> timing_info, result |-> result, errors |-> errors]
    /\ pc' = "idle"
    /\ segments' = << >>
    /\ i' = 1
    /\ was_cached' = FALSE
    /\ audio_segments' = << >>
    /\ timing_info' = << >>
    /\ current_time' = 0
    /\ cache_hits' = 0
    /\ api_calls' = 0
    /\ missing' = << >>
    /\ result' = "none"
    /\ errors' = << >>
    /\ log' = [log EXCEPT !["episode"] = << >>]
    /\ UNCHANGED <<kvars, envvars, storevars, inv>>

Init ==
    /\ KeyIdle
    /\ StampIdle
    /\ ParseIdle
    /\ WebIdle
    /\ entry \in Entries
    /\ script \in Scripts
    /\ cache \in IF entry = "preview" THEN {[k \in Keys(entry) |-> Absent]}
                ELSE Caches(entry)
    /\ temp_dir = NoDir
    /\ published = Unpublished
    /\ at_start = Snapshot
    /\ RunIdle
    /\ inv = [c \in Callers |-> IdleInv]
    /\ log = [c \in Callers |-> << >>]
    /\ prev = NoRun

Next ==
    \/ ModalStart
    \/ ModalPause
    \/ ModalProbe
    \/ \E c \in Callers : SegGet(c)
    \/ \E c \in Callers : SegSynth(c)
    \/ \E c \in Callers : SegSave(c)
    \/ \E c \in Callers : StorageFault(c)
    \/ ModalFinish
    \/ MainStart
    \/ MainNoApiKey
    \/ LocalPause
    \/ MainSegment
    \/ PreviewSegment
    \/ LocalFinish
    \/ NormalizeStart
    \/ NormalizeSegment
    \/ Rerun

\* each pipeline run by itself, and run once more on the same script
Spec == Init /\ [][Next]_vars

(***************************************************************************)
(* The Modal pipeline with other callers of generate_segment beside it.    *)
(***************************************************************************)
RaceInit == Init /\ entry = "modal"

RaceNext ==
    \/ ModalStart
    \/ ModalPause
    \/ ModalProbe
    \/ \E c \in Callers : SegGet(c)
    \/ \E c \in Callers : SegSynth(c)
    \/ \E c \in Callers : SegSave(c)
    \/ \E c \in Callers : StorageFault(c)
    \/ ClientInvoke
    \/ ModalFinish

RaceSpec == RaceInit /\ [][RaceNext]_vars

(***************************************************************************)
(* The pipelines on longer scripts of speech lines and section headers,    *)
(* each run once: the assembly of the audio, the timeline, the transcript. *)
(***************************************************************************)
AssemblyLines ==
    {SpeechLine("ERIC", "Hello there."), SpeechLine("MAYA", "Hi Eric!"), HeaderLine}

AssemblyScripts == UNION {[1..n -> AssemblyLines] : n \in 1..MaxAssemblyLines}

AssemblyInit ==
    /\ KeyIdle
    /\ StampIdle
    /\ ParseIdle
    /\ WebIdle
    /\ entry \in Entries
    /\ script \in AssemblyScripts
    /\ cache \in IF entry = "preview" THEN {[k \in Keys(entry) |-> Absent]}
                ELSE Caches(entry)
    /\ temp_dir = NoDir
    /\ published = Unpublished
    /\ at_start = Snapshot
    /\ RunIdle
    /\ inv = [c \in Callers |-> IdleInv]
    /\ log = [c \in Callers |-> << >>]
    /\ prev = NoRun

AssemblyNext ==
    \/ ModalStart
    \/ ModalPause
    \/ ModalProbe
    \/ \E c \in Callers : SegGet(c)
    \/ \E c \in Callers : SegSynth(c)
    \/ \E c \in Callers : SegSave(c)
    \/ \E c \in Callers : StorageFault(c)
    \/ ModalFinish
    \/ MainStart
    \/ MainNoApiKey
    \/ LocalPause
    \/ MainSegment
    \/ PreviewSegment
    \/ LocalFinish
    \/ NormalizeStart
    \/ NormalizeSegment

AssemblySpec == AssemblyInit /\ [][AssemblyNext]_vars

(***************************************************************************)
(* Timestamps as a state machine: two times are formatted.                 *)
(***************************************************************************)
StampInit ==
    /\ KeyIdle
    /\ PipelineIdle
    /\ ParseIdle
    /\ tpc = "in"
    /\ t1 \in StampTimes
    /\ t2 \in StampTimes
    /\ stamp1 = NoStamp
    /\ stamp2 = NoStamp

\* generate_webvtt formats the start and the end of a cue
StampRender ==
    /\ tpc = "in"
    /\ tpc' = "rendered"
    /\ stamp1' = format_vtt_timestamp(t1)
    /\ stamp2' = format_vtt_timestamp(t2)
    /\ UNCHANGED <<t1, t2, parsevars, webvars, kvars, entry, script, storevars, runvars, inv, log, prev>>

StampSpec == StampInit /\ [][StampRender]_vars

(***************************************************************************)
(* The parser as a state machine: one step per line of the text.           *)
(***************************************************************************)
ParseInit ==
    /\ KeyIdle
    /\ PipelineIdle
    /\ StampIdle
    /\ ppc = "loop"
    /\ content \in ParseScripts
    /\ lineno = 1
    /\ parsed = << >>

\* one turn of the loop over the lines
ParseLine ==
    /\ ppc = "loop"
    /\ lineno <= Len(content)
    /\ parsed' = parsed \o LineSegments(ClassifyLine(content[lineno]))
    /\ lineno' = lineno + 1
    /\ UNCHANGED <<ppc, content, tvars, webvars, kvars, entry, script, storevars, runvars, inv, log, prev>>

\* return segments
ParseReturn ==
    /\ ppc = "loop"
    /\ lineno > Len(content)
    /\ ppc' = "returned"
    /\ UNCHANGED <<content, lineno, parsed, tvars, webvars, kvars, entry, script, storevars, runvars, inv, log, prev>>

ParseNext == ParseLine \/ ParseReturn

ParseSpec == ParseInit /\ [][ParseNext]_vars

(***************************************************************************)
(* modal/src/generator.py: generate_episode_web, the endpoint that calls   *)
(* generate_episode and then writes the episode's row to the database.     *)
(***************************************************************************)
\* the row upsert_episode writes: the two URLs of the result
Row(res) == [exists |-> TRUE, audio_url |-> res.audio_url, transcript_url |-> res.vtt_url]

\* the URLs upload_episode and upload_transcript returned
ResultDict == [audio_url |-> "episodes/<episode_name>.m4a", vtt_url |-> "api/<podcast_id>.vtt"]

WebScripts == UNION {[1..n -> Lines] : n \in 0..MaxLines}

WebInit ==
    /\ KeyIdle
    /\ StampIdle
    /\ ParseIdle
    /\ entry = "modal"
    /\ script \in WebScripts
    /\ cache \in Caches(entry)
    /\ temp_dir = NoDir
    /\ published = Unpublished
    /\ at_start = Snapshot
    /\ RunIdle
    /\ inv = [c \in Callers |-> IdleInv]
    /\ log = [c \in Callers |-> << >>]
    /\ prev = NoRun
    /\ web \in {[pc |-> "request", metadata |-> m, response |-> "none"] : m \in BOOLEAN}
    /\ database = NoRow

WebUnchanged ==
    UNCHANGED <<kvars, entry, script, tvars, parsevars, storevars, runvars, inv, log, prev>>

\* a plausible slip: the request is handed on without being looked at
WebRequestUnchecked ==
    /\ web.pc = "request"
    /\ web' = [web EXCEPT !.pc = "generating"]
    /\ UNCHANGED database
    /\ WebUnchanged

\* the two checks of the request, then the call of generate_episode
WebRequest ==
    /\ web.pc = "request"
    /\ web' = IF script = << >>
              THEN [web EXCEPT !.pc = "responded",
                               !.response = "error: script_content is required"]
              ELSE IF ~web.metadata
              THEN [web EXCEPT !.pc = "responded",
                               !.response = "error: metadata is required"]
              ELSE [web EXCEPT !.pc = "generating"]
    /\ UNCHANGED database
    /\ WebUnchanged

\* generate_episode raised: the exception leaves the endpoint
WebRaised ==
    /\ web.pc = "generating"
    /\ pc = "ended"
    /\ result /= "return dict"
    /\ web' = [web EXCEPT !.pc = "raised"]
    /\ UNCHANGED database
    /\ WebUnchanged

\* generate_episode returned: upsert_episode, which writes the row or raises,
\* then the response
WebUpsert ==
    /\ web.pc = "generating"
    /\ pc = "ended"
    /\ result = "return dict"
    /\ \/ /\ database' = Row(ResultDict)
          /\ web' = [web EXCEPT !.pc = "responded", !.response = "episode_id"]
       \/ /\ UNCHANGED database
          /\ web' = [web EXCEPT !.pc = "raised"]
    /\ WebUnchanged

WebNext ==
    \/ WebRequest
    \/ ModalStart
    \/ ModalPause
    \/ ModalProbe
    \/ \E c \in Callers : SegGet(c)
    \/ \E c \in Callers : SegSynth(c)
    \/ \E c \in Callers : SegSave(c)
    \/ \E c \in Callers : StorageFault(c)
    \/ ModalFinish
    \/ WebRaised
    \/ WebUpsert

WebSpec == WebInit /\ [][WebNext]_vars

(***************************************************************************)
(* Properties of the cache keys (checked under KeySpec).                   *)
(***************************************************************************)
\* C1: two requests to the normalizing pipeline that differ in any parameter
\* handed to the synthesizer or the normalizer (text, voice, model, any entry
\* of VOICE_SETTINGS including use_speaker_boost, the loudness target) get
\* different keys.
C1_KeyCoversEveryParameter ==
    (kpc = "hashed" /\ reqA.normalized /\ reqB.normalized /\ reqA /= reqB)
        => keyA /= keyB

\* C2: two requests that are the same except for a normalization parameter
\* (whether the clip is normalized, i.e. which pipeline's key function is
\* used, or the loudness target) get different keys.
C2_NormalizationChangesKey ==
    (/\ kpc = "hashed"
     /\ reqA.text = reqB.text
     /\ reqA.voice_id = reqB.voice_id
     /\ \/ reqA.normalized /= reqB.normalized /\ reqA.cfg = reqB.cfg
        \/ /\ reqA.normalized /\ reqB.normalized
           /\ reqA.cfg.target_lufs /= reqB.cfg.target_lufs
           /\ reqB.cfg = [reqA.cfg EXCEPT !.target_lufs = reqB.cfg.target_lufs])
        => keyA /= keyB

\* the normalizing and the non-normalizing pipeline have hashed the same
\* text and voice, with the dict fields inserted in another order
C2_BothPipelinesHashed ==
    /\ kpc = "hashed"
    /\ reqA.text = reqB.text
    /\ reqA.voice_id = reqB.voice_id
    /\ reqA.cfg = reqB.cfg
    /\ reqA.normalized
    /\ ~reqB.normalized
    /\ korder /= SourceOrder(8)
    /\ keyA /= keyB

\* C3: the same request gives the same key in whatever order the fields of
\* the dict were inserted.
C3_KeyIsOrderIndependent ==
    (kpc = "hashed" /\ reqA = reqB) => keyA = keyB

\* the same request was hashed from a dict built in another field order
C3_HashedInAnotherOrder ==
    /\ kpc = "hashed"
    /\ reqA = reqB
    /\ Inversions(korder) = MaxSwaps
    /\ keyA = keyB

C5_EntriesNeverChange ==
    [][\A k \in DOMAIN cache : cache[k] /= Absent => cache'[k] = cache[k]]_vars

C7_FailedSynthesisKeepsCacheSound ==
    LET L == log["episode"]
    IN  /\ \A j \in 1..Len(L) :
             (L[j].op = "synth" /\ L[j].val = Failed) =>
                 /\ errors /= << >>
                 /\ (j < Len(L) => L[j + 1].op /= "put")
                 /\ (\A m \in (j + 1)..Len(L) :
                        ~(L[m].op = "put" /\ L[m].key = L[j].key))
                        => cache[L[j].key] = Absent
        /\ \A j \in 1..Len(L) : L[j].op = "put" => cache[L[j].key] = L[j].val
        /\ \A j \in 1..Len(L) :
             (L[j].op = "synth" /\ prev.ran) => prev.end[L[j].key] = Absent

\* a retry of generate_episode: the run before cached a clip and then failed
\* to synthesize the next, and this run has synthesized what was still absent
C7_RetryAfterFailure ==
    /\ entry = "modal"
    /\ prev.ran
    /\ \E n \in 1..Len(prev.errors) :
         prev.errors[n] \in {"synthesis failed", "Error generating audio"}
    /\ prev.start /= prev.end
    /\ \E k \in DOMAIN prev.end : prev.end[k] = Absent
    /\ \E j \in 1..Len(log["episode"]) :
         /\ log["episode"][j].op = "put"
         /\ prev.end[log["episode"][j].key] = Absent

\* C8: a run whose script parses to no segment ends with the empty-script
\* error and has looked up, synthesized, created and written nothing.
C8_EmptyScriptIsRefused ==
    (/\ pc = "ended"
     /\ parse_script(script) = << >>
     /\ errors /= <<"ELEVENLABS_API_KEY not set">>)
        => /\ errors = <<"No valid segments found in script">>
           /\ log["episode"] = << >>
           /\ temp_dir = at_start.temp_dir
           /\ published = at_start.published

C10_MissingAbortsBeforeAnyWork ==
    (entry = "normalize" /\ missing /= << >>) =>
        /\ pc = "ended"
        /\ result = "return 1"
        /\ errors = <<"segments missing from cache">>
        /\ temp_dir = at_start.temp_dir
        /\ published = at_start.published
        /\ audio_segments = << >>
        /\ timing_info = << >>
        /\ i = 1

\* verification has found every speech segment of a script missing
C10_AbortedOnMissing ==
    /\ entry = "normalize"
    /\ pc = "ended"
    /\ Len(missing) = MaxLines
    /\ result = "return 1"

(***************************************************************************)
(* Properties of the assembly (checked under AssemblySpec).                *)
(***************************************************************************)
\* C11: the running clock is the total duration of what has been appended
\* (0 at the start); the timeline has one entry per appended speech clip and
\* none for a silence; an entry starts at the clock before its clip and ends
\* one clip duration later, and the clock is 300 ms past that end once the
\* trailing silence is appended.
C11_ClockAndTimelineEntries ==
    LET a == audio_segments
        clock[n \in 0..Len(a)] ==
            IF n = 0 THEN 0 ELSE clock[n - 1] + get_audio_duration(a[n])
        clips == SelectSeq([j \in 1..Len(a) |-> j], LAMBDA j : a[j].level /= "silence")
    IN  /\ current_time = clock[Len(a)]
        /\ (pc = "idle" => current_time = 0)
        /\ Len(timing_info) = Len(clips)
        /\ \A n \in 1..Len(timing_info) :
             /\ timing_info[n].speaker \in {"ERIC", "MAYA"}
             /\ timing_info[n].start = clock[clips[n] - 1]
             /\ timing_info[n].end = timing_info[n].start + get_audio_duration(a[clips[n]])
             /\ clips[n] < Len(a)
             /\ clock[clips[n] + 1] = timing_info[n].end + 300

\* a finished run whose script had a section header between two utterances
C11_TwoEntriesAcrossPause ==
    /\ pc = "ended"
    /\ result \in {"return dict", "return 0"}
    /\ Len(timing_info) = 2
    /\ Len(audio_segments) = 5
    /\ audio_segments[3] = generate_silence(800)
    /\ timing_info[2].start = timing_info[1].end + 1100

\* C12 as stated: adjacent timeline entries do not overlap and the gap
\* between them is 300 ms or 800 ms.
C12_GapIsOneSilence ==
    \A n \in 1..(Len(timing_info) - 1) :
        /\ timing_info[n].end <= timing_info[n + 1].start
        /\ timing_info[n + 1].start - timing_info[n].end \in {300, 800}

\* C12 (amended): adjacent timeline entries do not overlap and the gap
\* between them is the 300 ms silence after the first utterance plus 800 ms
\* for each section break appended between the two clips.
C12_GapIsSilenceBetween ==
    LET a == audio_segments
        clips == SelectSeq([j \in 1..Len(a) |-> j], LAMBDA j : a[j].level /= "silence")
        breaks(n) == Cardinality({j \in (clips[n] + 1)..(clips[n + 1] - 1) :
                                     a[j] = generate_silence(800)})
    IN  \A n \in 1..(Len(timing_info) - 1) :
            /\ timing_info[n].end <= timing_info[n + 1].start
            /\ timing_info[n + 1].start - timing_info[n].end = 300 + 800 * breaks(n)

\* normalize_and_reassemble has put a section break between two utterances
C12_GapAcrossBreak ==
    /\ entry = "normalize"
    /\ pc = "ended"
    /\ Len(timing_info) >= 2
    /\ timing_info[2].start - timing_info[1].end = 1100

\* C13: what has been appended is, for the segments walked so far in script
\* order, one 800 ms silence per PAUSE and, per SPEECH, its clip directly
\* followed by one 300 ms silence, and nothing else.
C13_AudioFollowsSegments ==
    LET kind(clip) ==
            IF clip = generate_silence(800) THEN "break"
            ELSE IF clip = generate_silence(300) THEN "rest" ELSE "clip"
        expected[n \in 0..Len(segments)] ==
            IF n = 0 THEN << >>
            ELSE expected[n - 1] \o
                 (IF segments[n].speaker = "PAUSE" THEN <<"break">> ELSE <<"clip", "rest">>)
    IN  [j \in 1..Len(audio_segments) |-> kind(audio_segments[j])] = expected[i - 1]

\* C14: the transcript a local run writes has one cue per timeline entry and
\* no other, in timeline order and ascending in time, numbered 1..n, each
\* with the entry's start and end, the speaker's name as a reader writes it
\* (Eric, Maya) and the entry's text.
C14_OneCuePerEntry ==
    (/\ entry \in {"main", "preview", "normalize"}
     /\ pc = "ended"
     /\ result = "return 0")
        => LET cues == published.vtt.data
           IN  /\ published.vtt.written
               /\ Len(cues) = Len(timing_info)
               /\ \A n \in 1..Len(cues) :
                    /\ cues[n].number = n
                    /\ cues[n].start = timing_info[n].start
                    /\ cues[n].end = timing_info[n].end
                    /\ cues[n].voice =
                          (IF timing_info[n].speaker = "ERIC" THEN "Eric" ELSE "Maya")
                    /\ cues[n].text = timing_info[n].text
                    /\ cues[n].text \in {"Hello there.", "Hi Eric!"}
                    /\ \A m \in 1..Len(cues) : n < m => cues[n].start < cues[m].start

\* a transcript of two utterances with a section break between them
C14_TranscriptAcrossBreak ==
    /\ entry \in {"main", "preview", "normalize"}
    /\ pc = "ended"
    /\ result = "return 0"
    /\ Len(published.vtt.data) = 2
    /\ Len(segments) = 3
    /\ segments[2] = PauseSegment

(***************************************************************************)
(* Properties of the timestamps (checked under StampSpec).                 *)
(***************************************************************************)
\* C15: a rendered time has two-digit hours, minutes in 00..59, seconds in
\* 00..59 and milliseconds in 000..999, and rendering keeps the order of
\* times (the fields, read left to right, of a later time are not smaller).
C15_TimestampFormat ==
    tpc = "rendered" =>
        /\ \A st \in {stamp1, stamp2} :
             /\ st.hh \in 0..99
             /\ st.mm \in 0..59
             /\ st.ss \in 0..59
             /\ st.mmm \in 0..999
        /\ t1 <= t2 =>
             \/ stamp1.hh < stamp2.hh
             \/ stamp1.hh = stamp2.hh /\ stamp1.mm < stamp2.mm
             \/ stamp1.hh = stamp2.hh /\ stamp1.mm = stamp2.mm /\ stamp1.ss < stamp2.ss
             \/ /\ stamp1.hh = stamp2.hh /\ stamp1.mm = stamp2.mm
                /\ stamp1.ss = stamp2.ss /\ stamp1.mmm <= stamp2.mmm

(***************************************************************************)
(* Properties of normalize_and_reassemble's normalization (AssemblySpec).  *)
(***************************************************************************)
\* C16: the measurement comes first and the correction right after it; with
\* statistics the correction is the two-pass one; without, the single-pass
\* correction runs and leaves a non-empty clip, which is in the assembly.
C16_FallbackYieldsClip ==
    LET L == log["episode"]
    IN  entry = "normalize" =>
            \A j \in 1..Len(L) :
                L[j].op = "analyze" =>
                    /\ j < Len(L)
                    /\ L[j + 1].op = "normalize"
                    /\ L[j + 1].key = L[j].key
                    /\ L[j].val /= Failed => L[j + 1].val.level \in {"two_pass", "missing"}
                    /\ L[j].val = Failed =>
                          /\ L[j + 1].val.level = "single_pass"
                          /\ get_audio_duration(L[j + 1].val) > 0
                          /\ \E n \in 1..Len(audio_segments) :
                               audio_segments[n] = L[j + 1].val

\* C17: whatever step of the normalization failed, no clip of the assembly
\* is missing or of zero duration.
C17_NoMissingClipInAssembly ==
    entry = "normalize" =>
        \A n \in 1..Len(audio_segments) :
            /\ audio_segments[n].level /= "missing"
            /\ get_audio_duration(audio_segments[n]) > 0

\* C18: when a clip was corrected by the single-pass fallback, the run has
\* printed a message that says so.
C18_FallbackIsLogged ==
    (/\ entry = "normalize"
     /\ \E j \in 1..Len(log["episode"]) :
          log["episode"][j].op = "analyze" /\ log["episode"][j].val = Failed)
        => \E n \in 1..Len(errors) : errors[n] = "single-pass fallback"

\* C19: a local run whose clips do not all have the same sample rate and
\* channel layout ends in failure with no episode and no transcript written,
\* and a run whose concatenation failed returns failure with no transcript
\* written.
C19_EncodingMismatchIsFatal ==
    (entry \in {"main", "preview", "normalize"} /\ pc = "ended") =>
        /\ (\E n, m \in 1..Len(audio_segments) :
               Encoding(audio_segments[n]) /= Encoding(audio_segments[m]))
              => /\ result = "return 1"
                 /\ published = at_start.published
        /\ (\E n \in 1..Len(errors) : errors[n] = "Error combining audio files")
              => /\ result = "return 1"
                 /\ published.vtt = at_start.published.vtt

(***************************************************************************)
(* Properties of the cache (checked under Spec).                           *)
(***************************************************************************)
\* C20: a cache lookup answers with the clip of the latest put of that key
\* in the run, or, when the run has put none, with what the cache held for
\* the key when the run began (absent for a key never put).
C20_GetReturnsLastPut ==
    LET L == log["episode"]
    IN  \A j \in 1..Len(L) :
            L[j].op = "get" =>
                LET puts == {m \in 1..(j - 1) : L[m].op = "put" /\ L[m].key = L[j].key}
                IN  IF puts = {}
                    THEN L[j].val = at_start.cache[L[j].key]
                    ELSE L[j].val = L[CHOOSE m \in puts : \A x \in puts : x <= m].val

\* a clip put for one segment was read back for a later segment of the run
C20_ReadBackAfterPut ==
    \E j, m \in 1..Len(log["episode"]) :
        /\ j < m
        /\ log["episode"][j].op = "put"
        /\ log["episode"][m].op = "get"
        /\ log["episode"][m].key = log["episode"][j].key
        /\ log["episode"][m].val = log["episode"][j].val
        /\ at_start.cache[log["episode"][j].key] = Absent

(***************************************************************************)
(* Properties of the parser (checked under ParseSpec).                     *)
(***************************************************************************)
\* C21: the segments are those of the lines read so far, in the order of the
\* lines: a line with a speaker label gives one SPEECH segment exactly if the
\* speaker is ERIC or MAYA and the cleaned text is non-empty, a line starting
\* with '## [' gives one PAUSE segment, every other line (blank ones and
\* those of other speakers included) gives nothing.
C21_SegmentsFollowLines ==
    LET of_line(k) ==
            LET line == strip(content[k])
                m == speaker_match(line)
                speaker == Join(m.speaker)
                text == Join(clean_text(m.text))
            IN  IF m.matched
                THEN IF speaker \in {"ERIC", "MAYA"} /\ text /= ""
                     THEN <<[speaker |-> speaker, text |-> text]>>
                     ELSE << >>
                ELSE IF startswith(line, <<"#", "#", " ", "[">>)
                     THEN <<[speaker |-> "PAUSE", text |-> "None"]>>
                     ELSE << >>
        out[k \in 0..Len(content)] ==
            IF k = 0 THEN << >> ELSE out[k - 1] \o of_line(k)
    IN  ppc \in {"loop", "returned"} => parsed = out[lineno - 1]

\* C21 witness: a header between two speech lines, the first of them after
\* leading markup was cleaned, gave speech, pause, speech
C21_HeaderBetweenSpeech ==
    /\ ppc = "returned"
    /\ Len(content) = 3
    /\ parsed = <<Segment("MAYA", "Oh"), PauseSegment, Segment("ERIC", "Hi")>>

\* C22: every segment of the parser's output is either a SPEECH segment of a
\* recognized speaker with a non-empty text, or a PAUSE segment, which has
\* the PAUSE marker for a speaker and None for a text.
C22_SegmentsWellFormed ==
    \A j \in 1..Len(parsed) :
        \/ /\ parsed[j].speaker \in {"ERIC", "MAYA"}
           /\ parsed[j].text \notin {"", "None"}
        \/ /\ parsed[j].speaker = "PAUSE"
           /\ parsed[j].text = "None"

\* C22 witness: a script with a recognized speaker whose text cleans to
\* nothing, a header and a speech line was parsed to the end
C22_ParsedWithEmptyText ==
    /\ ppc = "returned"
    /\ Len(content) = 3
    /\ LET m == speaker_match(strip(content[1]))
       IN  /\ Join(m.speaker) = "MAYA"
           /\ m.text /= << >>
           /\ clean_text(m.text) = << >>
    /\ parsed = <<PauseSegment, Segment("ERIC", "Hi")>>

\* C23: the text of a SPEECH segment holds no '{{...}}' span, no '[...]'
\* aside and no '*'.
C23_NoMarkupLeft ==
    \A k \in 1..(lineno - 1) :
        LET m == speaker_match(strip(content[k]))
            text == clean_text(m.text)
            spans(open, close) ==
                \E p \in 1..Len(text) : \E q \in (p + Len(open))..Len(text) :
                    LiteralAt(text, p, open) /\ LiteralAt(text, q, close)
        IN  (/\ m.matched
             /\ \E j \in 1..Len(parsed) :
                    parsed[j] = Segment(Join(m.speaker), Join(text)))
            => /\ ~spans(<<"{", "{">>, <<"}", "}">>)
               /\ ~spans(<<"[">>, <<"]">>)
               /\ \A p \in 1..Len(text) : text[p] /= "*"
(***************************************************************************)
(* Properties of normalize_and_reassemble as a whole (AssemblySpec).       *)
(***************************************************************************)
\* C24: a run of normalize_and_reassemble never calls a synthesizer and
\* never writes to the cache, which stays as the run found it; with every
\* key of the script cached the verification lets the run through, each
\* speech clip of the assembly is made from the clip cached under the key of
\* its segment, every other clip is a silence, and a successful run has
\* written the episode and the transcript from just these.
C24_ReassemblyFromCacheAlone ==
    (entry = "normalize" /\ pc /= "idle") =>
        LET speech == SelectSeq(SubSeq(segments, 1, i - 1), IsSpeech)
            clips == SelectSeq(audio_segments, LAMBDA c : c.level /= "silence")
        IN  /\ cache = at_start.cache
            /\ \A j \in 1..Len(log["episode"]) :
                 log["episode"][j].op \notin {"synth", "say", "put"}
            /\ (\A j \in 1..Len(segments) :
                   IsSpeech(segments[j]) => cache[LocalKey(segments[j])] /= Absent)
               => /\ missing = << >>
                  /\ (pc = "ended" /\ result = "return 1")
                        => errors = <<"Error combining audio files">>
                  /\ Len(clips) = Len(speech)
                  /\ \A j \in 1..Len(clips) :
                       /\ clips[j].id = cache[LocalKey(speech[j])].id
                       /\ clips[j].level \in {"two_pass", "single_pass", "missing"}
                  /\ (pc = "ended" /\ result = "return 0")
                        => /\ i = Len(segments) + 1
                           /\ published.audio = File(audio_segments)
                           /\ published.vtt = File(generate_webvtt(timing_info))

\* C24 witness: a script with two utterances, both cached, was re-assembled
\* and the run succeeded
C24_ReassembledTwoCached ==
    /\ entry = "normalize"
    /\ pc = "ended"
    /\ result = "return 0"
    /\ Len(SelectSeq(segments, IsSpeech)) = 2
    /\ Len(timing_info) = 2
    /\ published.audio = File(audio_segments)
(***************************************************************************)
(* Properties of generate_segment's control flow (checked under Spec).     *)
(***************************************************************************)
\* C25: a cache write comes right after a synthesis that delivered a
\* recording, itself right after a lookup of the same key that found nothing;
\* what is written is the normalizer's output for that recording and not the
\* recording; an invocation about to write holds a normalized clip; and the
\* clip handed back to generate_episode is the clip now stored under the key.
C25_StoreAfterNormalize ==
    /\ \A c \in Callers :
         /\ inv[c].pc = "save" => inv[c].audio.level = "normalized"
         /\ \A j \in 1..Len(log[c]) :
              (entry = "modal" /\ log[c][j].op = "put") =>
                  /\ j > 2
                  /\ log[c][j - 2].op = "get"
                  /\ log[c][j - 2].key = log[c][j].key
                  /\ log[c][j - 2].val = Absent
                  /\ log[c][j - 1].op = "synth"
                  /\ log[c][j - 1].key = log[c][j].key
                  /\ log[c][j - 1].val \in RawClips
                  /\ log[c][j].val = normalize_audio_modal(log[c][j - 1].val)
                  /\ log[c][j].val /= log[c][j - 1].val
                  /\ log[c][j].val.level = "normalized"
    /\ LET L == log["episode"]
           clips == SelectSeq(audio_segments, LAMBDA c : c.level /= "silence")
       IN  (entry = "modal" /\ L /= << >> /\ L[Len(L)].op = "put") =>
               /\ clips /= << >>
               /\ clips[Len(clips)] = L[Len(L)].val
               /\ cache[L[Len(L)].key] = L[Len(L)].val

\* C25 witness: a generate_episode run that synthesized, normalized and stored
\* a clip has returned
C25_StoredAndReturned ==
    /\ entry = "modal"
    /\ pc = "ended"
    /\ result = "return dict"
    /\ \E j \in 1..Len(log["episode"]) :
         /\ log["episode"][j].op = "put"
         /\ cache[log["episode"][j].key] = log["episode"][j].val
         /\ at_start.cache[log["episode"][j].key] = Absent
(***************************************************************************)
(* Gaps of the timeline against the script (checked under AssemblySpec).   *)
(***************************************************************************)
\* C26: with the k-th timeline entry belonging to the k-th SPEECH segment of
\* the script, the gap between two adjacent entries is 300 ms plus 800 ms for
\* each PAUSE segment between their two segments, and the first entry starts
\* at 800 ms times the number of PAUSE segments before the first SPEECH
\* segment.
C26_GapsFollowScript ==
    LET at[k \in 0..Len(segments)] ==
            IF k = 0 THEN << >>
            ELSE IF IsSpeech(segments[k]) THEN Append(at[k - 1], k) ELSE at[k - 1]
        speech == at[Len(segments)]
        pauses(from, to) ==
            Cardinality({j \in (from + 1)..(to - 1) : segments[j] = PauseSegment})
    IN  (pc /= "idle" /\ Len(timing_info) <= Len(speech)) =>
            /\ timing_info /= << >> =>
                 timing_info[1].start = 800 * pauses(0, speech[1])
            /\ \A k \in 1..(Len(timing_info) - 1) :
                 timing_info[k + 1].start - timing_info[k].end
                     = 300 + 800 * pauses(speech[k], speech[k + 1])
(***************************************************************************)
(* Temporary files of the local runs (checked under AssemblySpec, where a  *)
(* run starts with no temp_segments directory).                            *)
(***************************************************************************)
\* C27: when a local run has ended, with success or with failure, the
\* temp_segments directory and the files in it are gone.
C27_TempDirRemovedAtExit ==
    (entry \in {"main", "preview", "normalize"} /\ pc = "ended") =>
        temp_dir = NoDir
(***************************************************************************)
(* Order of publication behind the web endpoint (checked under WebSpec).   *)
(***************************************************************************)
\* C28: an upload has happened only with every segment of a non-empty script
\* resolved and the episode concatenated, the transcript's only after the
\* episode's; the database has the row only after both uploads and the return
\* of generate_episode; a run that raised (empty parse, failed synthesis,
\* storage error, failed upload) has written no row, and nothing at all was
\* uploaded unless the failure was an upload's; a request without
\* script_content or without metadata was answered with an error before any
\* lookup, synthesis, upload or database write.
C28_PublicationInOrder ==
    web.pc /= "off" =>
        /\ published.audio.written =>
             /\ segments /= << >>
             /\ i = Len(segments) + 1
             /\ Len(timing_info) = Len(SelectSeq(segments, IsSpeech))
             /\ published.audio = File(audio_segments)
        /\ published.vtt.written =>
             /\ published.audio.written
             /\ published.vtt = File(generate_webvtt(timing_info))
        /\ database.exists =>
             /\ published.audio.written
             /\ published.vtt.written
             /\ pc = "ended"
             /\ result = "return dict"
             /\ database = Row(ResultDict)
        /\ (pc = "ended" /\ result /= "return dict") =>
             /\ ~database.exists
             /\ ~published.vtt.written
             /\ errors[Len(errors)] \in {"No valid segments found in script",
                                         "synthesis failed", "ClientError"}
                    => published = Unpublished
        /\ (web.pc /= "request" /\ (script = << >> \/ ~web.metadata)) =>
             /\ web.pc = "responded"
             /\ web.response = IF script = << >>
                               THEN "error: script_content is required"
                               ELSE "error: metadata is required"
             /\ pc = "idle"
             /\ log["episode"] = << >>
             /\ cache = at_start.cache
             /\ published = Unpublished
             /\ database = NoRow

\* C28 witness: a request with a script and metadata was served: segments
\* synthesized, both files uploaded, the row written
C28_ServedAndRecorded ==
    /\ web.pc = "responded"
    /\ web.response = "episode_id"
    /\ api_calls > 0
    /\ published.audio.written
    /\ published.vtt.written
    /\ database.exists
(***************************************************************************)
(* The statistics of generate_episode (checked under RaceSpec).            *)
(***************************************************************************)
\* C29: when generate_episode returns, cache_hits + api_calls is the number
\* of SPEECH segments, api_calls is the number of synthesizer calls the run
\* made, and cache_hits the number of segments it served from the cache.
C29_StatisticsAccurate ==
    (entry = "modal" /\ pc = "ended" /\ result = "return dict") =>
        LET segment_count == Len(SelectSeq(segments, IsSpeech))
            synthesized == Len(SelectSeq(log["episode"], LAMBDA e : e.op = "synth"))
        IN  /\ cache_hits + api_calls = segment_count
            /\ api_calls = synthesized
            /\ cache_hits = segment_count - synthesized
(***************************************************************************)
(* Completeness of a successful run (checked under AssemblySpec).          *)
(***************************************************************************)
\* C30: when a run has ended with success, the published episode holds one
\* clip, and the timeline one entry, for every SPEECH segment of the parsed
\* script, in script order, and no segment's synthesis has failed in the run.
C30_SuccessIsComplete ==
    (pc = "ended" /\ result \in {"return dict", "return 0"}) =>
        LET speech == SelectSeq(segments, IsSpeech)
            clips == SelectSeq(published.audio.data, LAMBDA c : c.level /= "silence")
        IN  /\ published.audio.written
            /\ Len(clips) = Len(speech)
            /\ Len(timing_info) = Len(speech)
            /\ \A k \in 1..Len(timing_info) :
                 /\ timing_info[k].speaker = speech[k].speaker
                 /\ timing_info[k].text = speech[k].text
            /\ \A j \in 1..Len(errors) : errors[j] /= "Error generating audio"
            /\ \A j \in 1..Len(log["episode"]) :
                 log["episode"][j].op \in {"synth", "say"} => log["episode"][j].val /= Failed
====
